---- MODULE Spec2Model ----
(***************************************************************************)
(* Luma flashcard backend: the relational tables of app/models.py, the     *)
(* record access layer of app/crud.py and the HTTP handlers of             *)
(* app/routers/*.py and app/main.py, as a state machine over the tables.   *)
(* Every handler is one action; the handler's response is kept in `resp`.  *)
(***************************************************************************)
EXTENDS Integers, Sequences, FiniteSets, Bags, TLC

VARIABLES
    users,      \* table users:          id -> row
    decks,      \* table decks:          id -> row
    words,      \* table words:          id -> row
    sessions,   \* table study_sessions: id -> row
    progress,   \* table user_word_progress: a bag of rows (the key is a constraint, not a shape)
    uuid,       \* the next fresh primary key of each table (uuid.uuid4 never repeats)
    now,        \* the server clock, in ticks since a Monday 00:00 UTC
    inflight,   \* requests between their read and their commit: process -> snapshot
    resp,       \* the last request and the response it received
    achievements, \* table achievements: id -> row
    seeding     \* the runs of app/seed.py so far: run -> its position and pending rows

db == <<users, decks, words, sessions, progress>>
catalog == <<achievements, seeding>>
vars == <<users, decks, words, sessions, progress, uuid, now, inflight, resp, achievements, seeding>>

-----------------------------------------------------------------------------
(* Bounds of the model *)

\* Spec: the deck, word and study routers.
MaxUsers == 2
MaxDecks == 2
MaxWords == 1
MaxSessions == 1
MaxStreak == 1
\* SpecCascade: deleting decks.
CascadeDecks == 1
CascadeWords == 1
CascadeSessions == 1
\* SpecPatch: partial updates.
PatchRows == 2
\* SpecOwner: decks, words and sessions created in all.
OwnerRows == 3
\* SpecDetail: the words of the decks whose detail is read.
DetailWords == 2
\* SpecStudy: word progress and the deck detail.
StudyWords == 4
StudyStreak == 2
\* SpecConc: overlapping progress updates.
ConcWorkers == 2
ConcWords == 1
ConcStreak == 1
\* SpecStats: the dashboard statistics over time.
StatsSessions == 2
StatsTime == 5
\* SpecOpen: the handlers that take no token.
OpenUsers == 2
OpenDecks == 2
OpenWords == 1
\* SpecMonths: half a year of study sessions, the clock moving 30 days at a time.
MonthsSessions == 7
MonthsSteps == 6
\* SpecQuiz: flashcard and quiz sessions with and without a score.
QuizLogged == 3
\* SpecSignup: overlapping registrations.
SignupWorkers == 3
\* SpecDash: the dashboard of two users over their words, progress and sessions.
DashWords == 2
DashSessions == 1
\* SpecBreakdown: words of every difficulty and the progress of two users on them.
BreakdownWords == 2
\* SpecSeed: runs of the seeding script.
SeedRuns == 2

-----------------------------------------------------------------------------
(* Values *)

None == "null"
\* The nullable integer column score_percentage: NULL, or a score.
NoScore == << >>
Score(n) == <<n>>
NoToken == "no-token"
Emails == {"a@x", "b@x"}
\* A bearer token is modelled by the subject it was signed for; NoToken stands
\* for a missing, malformed, wrongly signed or expired token.
Tokens == Emails \cup {NoToken}

DifficultyEnum == {"easy", "medium", "hard"}
StatusEnum == {"learning", "mastered"}
SessionTypeEnum == {"flashcard", "quiz"}

DeckFields == {"title", "description", "category"}
WordFields == {"word", "definition", "example", "difficulty"}

NoPayload == [f \in {} |-> None]
Args(deck_id, word_id, payload) ==
    [deck_id |-> deck_id, word_id |-> word_id, payload |-> payload]
NoArgs == Args(0, 0, NoPayload)
Detail(msg) == [detail |-> msg]

Response(route, token, args, status, body) ==
    [route |-> route, token |-> token, args |-> args, status |-> status, body |-> body]

-----------------------------------------------------------------------------
(* Generic helpers *)

\* The table `t` with row `row` stored under the fresh key `id`.
Insert(t, id, row) == [k \in DOMAIN t \cup {id} |-> IF k = id THEN row ELSE t[k]]

\* The table `t` without the rows whose key is in `ids`.
Remove(t, ids) == [k \in DOMAIN t \ ids |-> t[k]]

\* The bag `b` restricted to the rows in `keep`.
BagFilter(b, keep) == [r \in DOMAIN b \cap keep |-> b[r]]

\* model_dump(exclude_unset=True) followed by setattr for every item: the
\* fields the payload carries are overwritten, the others keep their value.
ApplyPatch_Replace(row, patch) ==
    [f \in DOMAIN row |-> IF f \in DOMAIN patch THEN patch[f]
                          ELSE IF f \in DeckFields \cup WordFields THEN None
                          ELSE row[f]]
ApplyPatch(row, patch) ==
    [f \in DOMAIN row |-> IF f \in DOMAIN patch THEN patch[f] ELSE row[f]]

RECURSIVE SumOver(_, _)
SumOver(S, f) ==
    IF S = {} THEN 0
    ELSE LET x == CHOOSE y \in S : TRUE IN f[x] + SumOver(S \ {x}, f)

-----------------------------------------------------------------------------
(* app/routers/auth.py: authentication *)

get_user_by_email(email) == {u \in DOMAIN users : users[u].email = email}

\* get_current_user: the set holding the authenticated user's id, or {} when
\* the handler answers 401 (token rejected, or no user with the token's email).
get_current_user(token) ==
    IF token = NoToken THEN {} ELSE get_user_by_email(token)

Authenticated(token) == get_current_user(token) # {}
CurrentUser(token) == CHOOSE u \in get_current_user(token) : TRUE

Unauthorized(route, token, args) ==
    /\ ~Authenticated(token)
    /\ resp' = Response(route, token, args, 401, Detail("Could not validate credentials"))
    /\ UNCHANGED <<db, uuid, now, catalog, inflight>>

NewUser(email, full_name, password_hash) ==
    [email |-> email, full_name |-> full_name, password_hash |-> password_hash,
     google_id |-> None, avatar_url |-> None, bio |-> None,
     streak |-> 0, best_streak |-> 0, level |-> 1, daily_goal |-> 10,
     notifications_enabled |-> TRUE, sound_effects_enabled |-> TRUE,
     dark_mode_enabled |-> FALSE]

get_password_hash(password) == <<"bcrypt", password>>

crud_create_user(user) ==
    Insert(users, uuid.user, NewUser(user.email, user.full_name, get_password_hash(user.password)))

register_user(user) ==
    /\ IF get_user_by_email(user.email) # {}
       THEN /\ resp' = Response("register", NoToken, NoArgs, 400, Detail("Email already registered"))
            /\ UNCHANGED <<users, uuid>>
       ELSE /\ users' = crud_create_user(user)
            /\ uuid' = [uuid EXCEPT !.user = @ + 1]
            /\ resp' = Response("register", NoToken, NoArgs, 200,
                                [access_token |-> user.email, user |-> uuid.user])
    /\ UNCHANGED <<decks, words, sessions, progress, now, catalog, inflight>>

-----------------------------------------------------------------------------
(* app/crud.py: decks *)

get_deck(deck_id) == {d \in DOMAIN decks : d = deck_id}

crud_create_deck(deck, user_id) ==
    Insert(decks, uuid.deck,
           [user_id |-> user_id, title |-> deck.title,
            description |-> deck.description, category |-> deck.category])

crud_update_deck(deck_id, deck_update) ==
    [decks EXCEPT ![deck_id] = ApplyPatch(@, deck_update)]

\* Deck.words, cascade="all, delete-orphan": the words that go with a deck.
WordsOfDeck_None(deck_id) == {}
WordsOfDeck(deck_id) == {w \in DOMAIN words : words[w].deck_id = deck_id}

\* Deck.study_sessions, cascade="all, delete-orphan".
SessionsOfDeck(deck_id) == {s \in DOMAIN sessions : sessions[s].deck_id = deck_id}

\* Word.user_progress, cascade="all, delete-orphan": the progress rows that
\* stay when the words `ws` are deleted.
ProgressWithoutWords(ws) ==
    BagFilter(progress, {r \in DOMAIN progress : r.word_id \notin ws})

-----------------------------------------------------------------------------
(* app/crud.py: words *)

get_word(word_id) == {w \in DOMAIN words : w = word_id}

crud_create_word(word, deck_id) ==
    Insert(words, uuid.word,
           [deck_id |-> deck_id, word |-> word.word, definition |-> word.definition,
            example |-> word.example, difficulty |-> word.difficulty])

crud_update_word(word_id, word_update) ==
    [words EXCEPT ![word_id] = ApplyPatch(@, word_update)]

-----------------------------------------------------------------------------
(* app/crud.py: deck statistics *)

GCD(a, b) == CHOOSE g \in 1..(IF a > b THEN a ELSE b) :
                /\ a % g = 0 /\ b % g = 0
                /\ \A h \in (g + 1)..(IF a > b THEN a ELSE b) : ~(a % h = 0 /\ b % h = 0)

\* The exact quotient n / d of two naturals, d > 0, in lowest terms.
Ratio(n, d) == IF n = 0 THEN <<0, 1>> ELSE <<n \div GCD(n, d), d \div GCD(n, d)>>

count_total_words_in_deck(deck_id) ==
    Cardinality({w \in DOMAIN words : words[w].deck_id = deck_id})

\* UserWordProgress JOIN Word ON word_id, filtered by deck, user and status.
count_words_by_status_AnyStatus(deck_id, status, user_id) ==
    BagCardinality(BagFilter(progress,
        {r \in DOMAIN progress :
            /\ r.word_id \in DOMAIN words
            /\ words[r.word_id].deck_id = deck_id
            /\ r.user_id = user_id}))
count_words_by_status(deck_id, status, user_id) ==
    BagCardinality(BagFilter(progress,
        {r \in DOMAIN progress :
            /\ r.word_id \in DOMAIN words
            /\ words[r.word_id].deck_id = deck_id
            /\ r.user_id = user_id
            /\ r.status = status}))

count_words_by_difficulty_AnyDifficulty(deck_id, difficulty) ==
    Cardinality({w \in DOMAIN words : words[w].deck_id = deck_id})
count_words_by_difficulty(deck_id, difficulty) ==
    Cardinality({w \in DOMAIN words :
                    words[w].deck_id = deck_id /\ words[w].difficulty = difficulty})

\* (words_mastered / total_words) * 100 if total_words > 0 else 0
mastery_percentage(words_mastered, total_words) ==
    IF total_words > 0 THEN Ratio(words_mastered * 100, total_words) ELSE <<0, 1>>

-----------------------------------------------------------------------------
(* app/crud.py: study sessions and word progress *)

crud_create_study_session(session, user_id) ==
    Insert(sessions, uuid.session,
           [user_id |-> user_id, deck_id |-> session.deck_id,
            session_type |-> session.session_type,
            score_percentage |-> session.score_percentage,
            words_reviewed |-> session.words_reviewed,
            completed_at |-> now,
            duration_seconds |-> session.duration_seconds])

\* The rows the lookup of update_word_progress finds (.first() takes one).
query_progress(word_id, user_id) ==
    {r \in DOMAIN progress : r.word_id = word_id /\ r.user_id = user_id}

\* The composite primary key (user_id, word_id) of user_word_progress: an
\* INSERT of a second row for the pair is refused by the database.
PrimaryKeyFree_Unchecked(user_id, word_id) == TRUE
PrimaryKeyFree(user_id, word_id) == query_progress(word_id, user_id) = {}

\* The foreign keys of user_word_progress.
ForeignKeysHold(user_id, word_id) ==
    user_id \in DOMAIN users /\ word_id \in DOMAIN words

\* The streak an existing row gets: += 1 on mastered, else 0.
next_streak_Saturating(correct_streak, status) ==
    IF status = "mastered" THEN (IF correct_streak >= 1 THEN correct_streak ELSE 1) ELSE 0
next_streak_Keep(correct_streak, status) ==
    IF status = "mastered" THEN correct_streak + 1 ELSE correct_streak
next_streak(correct_streak, status) ==
    IF status = "mastered" THEN correct_streak + 1 ELSE 0

\* The streak a new row gets.
first_streak_Zero(status) == 0
first_streak(status) == IF status = "mastered" THEN 1 ELSE 0

\* The row a new progress record is created with.
new_progress(word_id, user_id, status) ==
    [user_id |-> user_id, word_id |-> word_id, status |-> status,
     last_reviewed_at |-> now, correct_streak |-> first_streak(status)]

\* The object update_word_progress changes: the row its lookup loaded, which
\* the session does not read again before the commit.
loaded_row_Refreshed(found, stored) == CHOOSE r \in stored : TRUE
loaded_row(found, stored) == CHOOSE r \in found : TRUE

\* db.add + db.commit of update_word_progress, given the rows `found` that
\* its lookup returned: [ok, table, row]. A refused INSERT (duplicate key,
\* missing parent) or an UPDATE that matches no row raises, and the
\* transaction leaves the table as it is.
flush_progress(found, word_id, user_id, status) ==
    IF found = {}
    THEN LET row == new_progress(word_id, user_id, status) IN
         IF PrimaryKeyFree(user_id, word_id) /\ ForeignKeysHold(user_id, word_id)
         THEN [ok |-> TRUE, table |-> progress (+) SetToBag({row}), row |-> row]
         ELSE [ok |-> FALSE, table |-> progress, row |-> row]
    ELSE LET stored == query_progress(word_id, user_id)
         IN  IF stored = {}
             THEN [ok |-> FALSE, table |-> progress, row |-> CHOOSE r \in found : TRUE]
             ELSE LET loaded == loaded_row(found, stored)
                      old == CHOOSE r \in stored : TRUE
                      row == [old EXCEPT !.status = status,
                                         !.correct_streak = next_streak(loaded.correct_streak, status)]
                  IN  [ok |-> TRUE,
                       table |-> (progress (-) SetToBag({old})) (+) SetToBag({row}),
                       row |-> row]

\* update_word_progress run without interruption: the lookup, then the flush.
crud_update_word_progress(word_id, user_id, status) ==
    flush_progress(query_progress(word_id, user_id), word_id, user_id, status)

-----------------------------------------------------------------------------
(* app/routers/decks.py *)

decks_create_deck(token, deck) ==
    \/ Unauthorized("create_deck", token, Args(0, 0, deck))
    \/ /\ Authenticated(token)
       /\ decks' = crud_create_deck(deck, CurrentUser(token))
       /\ uuid' = [uuid EXCEPT !.deck = @ + 1]
       /\ resp' = Response("create_deck", token, Args(0, 0, deck), 200, decks'[uuid.deck])
       /\ UNCHANGED <<users, words, sessions, progress, now, catalog, inflight>>

\* The 404 and 403 answers the deck and word handlers share.
DeckNotFound(route, token, args) ==
    /\ Authenticated(token)
    /\ get_deck(args.deck_id) = {}
    /\ resp' = Response(route, token, args, 404, Detail("Deck not found"))
    /\ UNCHANGED <<db, uuid, now, catalog, inflight>>

DeckForbidden(route, token, args) ==
    /\ Authenticated(token)
    /\ get_deck(args.deck_id) # {}
    /\ decks[args.deck_id].user_id # CurrentUser(token)
    /\ resp' = Response(route, token, args, 403, Detail("Not authorized"))
    /\ UNCHANGED <<db, uuid, now, catalog, inflight>>

DeckOwned(token, deck_id) ==
    /\ Authenticated(token)
    /\ get_deck(deck_id) # {}
    /\ decks[deck_id].user_id = CurrentUser(token)

decks_read_deck(token, deck_id) ==
    LET args == Args(deck_id, 0, NoPayload) IN
    \/ Unauthorized("read_deck", token, args)
    \/ DeckNotFound("read_deck", token, args)
    \/ DeckForbidden("read_deck", token, args)
    \/ /\ DeckOwned(token, deck_id)
       /\ LET words_mastered == count_words_by_status(deck_id, "mastered", CurrentUser(token))
              total_words == count_total_words_in_deck(deck_id)
          IN  resp' = Response("read_deck", token, args, 200,
                  [id |-> deck_id,
                   user_id |-> decks[deck_id].user_id,
                   title |-> decks[deck_id].title,
                   description |-> decks[deck_id].description,
                   category |-> decks[deck_id].category,
                   mastery_percentage |-> mastery_percentage(words_mastered, total_words),
                   words_mastered |-> words_mastered,
                   words_learning |-> total_words - words_mastered,
                   easy_count |-> count_words_by_difficulty(deck_id, "easy"),
                   medium_count |-> count_words_by_difficulty(deck_id, "medium"),
                   hard_count |-> count_words_by_difficulty(deck_id, "hard")])
       /\ UNCHANGED <<db, uuid, now, catalog, inflight>>

decks_update_deck(token, deck_id, deck_update) ==
    LET args == Args(deck_id, 0, deck_update) IN
    \/ Unauthorized("update_deck", token, args)
    \/ DeckNotFound("update_deck", token, args)
    \/ DeckForbidden("update_deck", token, args)
    \/ /\ DeckOwned(token, deck_id)
       /\ decks' = crud_update_deck(deck_id, deck_update)
       /\ resp' = Response("update_deck", token, args, 200, decks'[deck_id])
       /\ UNCHANGED <<users, words, sessions, progress, uuid, now, catalog, inflight>>

decks_delete_deck(token, deck_id) ==
    LET args == Args(deck_id, 0, NoPayload) IN
    \/ Unauthorized("delete_deck", token, args)
    \/ DeckNotFound("delete_deck", token, args)
    \/ DeckForbidden("delete_deck", token, args)
    \/ /\ DeckOwned(token, deck_id)
       /\ decks' = Remove(decks, {deck_id})
       /\ words' = Remove(words, WordsOfDeck(deck_id))
       /\ sessions' = Remove(sessions, SessionsOfDeck(deck_id))
       /\ progress' = ProgressWithoutWords(WordsOfDeck(deck_id))
       /\ resp' = Response("delete_deck", token, args, 200, decks[deck_id])
       /\ UNCHANGED <<users, uuid, now, catalog, inflight>>

-----------------------------------------------------------------------------
(* app/routers/words.py *)

words_create_word_for_deck_endpoint(token, deck_id, word) ==
    LET args == Args(deck_id, 0, word) IN
    \/ Unauthorized("create_word", token, args)
    \/ DeckNotFound("create_word", token, args)
    \/ DeckForbidden("create_word", token, args)
    \/ /\ DeckOwned(token, deck_id)
       /\ words' = crud_create_word(word, deck_id)
       /\ uuid' = [uuid EXCEPT !.word = @ + 1]
       /\ resp' = Response("create_word", token, args, 200, words'[uuid.word])
       /\ UNCHANGED <<users, decks, sessions, progress, now, catalog, inflight>>

\* The word the handler hands to crud.update_word / crud.delete_word: the
\* path's word_id, looked up by id alone.
ResolveWord(deck_id, word_id) == get_word(word_id)

WordNotFound(route, token, args) ==
    /\ DeckOwned(token, args.deck_id)
    /\ ResolveWord(args.deck_id, args.word_id) = {}
    /\ resp' = Response(route, token, args, 404, Detail("Word not found"))
    /\ UNCHANGED <<db, uuid, now, catalog, inflight>>

words_update_word_endpoint(token, deck_id, word_id, word) ==
    LET args == Args(deck_id, word_id, word) IN
    \/ Unauthorized("update_word", token, args)
    \/ DeckNotFound("update_word", token, args)
    \/ DeckForbidden("update_word", token, args)
    \/ WordNotFound("update_word", token, args)
    \/ /\ DeckOwned(token, deck_id)
       /\ ResolveWord(deck_id, word_id) # {}
       /\ words' = crud_update_word(word_id, word)
       /\ resp' = Response("update_word", token, args, 200, words'[word_id])
       /\ UNCHANGED <<users, decks, sessions, progress, uuid, now, catalog, inflight>>

words_delete_word_endpoint(token, deck_id, word_id) ==
    LET args == Args(deck_id, word_id, NoPayload) IN
    \/ Unauthorized("delete_word", token, args)
    \/ DeckNotFound("delete_word", token, args)
    \/ DeckForbidden("delete_word", token, args)
    \/ WordNotFound("delete_word", token, args)
    \/ /\ DeckOwned(token, deck_id)
       /\ ResolveWord(deck_id, word_id) # {}
       /\ words' = Remove(words, {word_id})
       /\ progress' = ProgressWithoutWords({word_id})
       /\ resp' = Response("delete_word", token, args, 200, words[word_id])
       /\ UNCHANGED <<users, decks, sessions, uuid, now, catalog, inflight>>

-----------------------------------------------------------------------------
(* app/routers/study.py *)

study_create_study_session(token, session) ==
    LET args == Args(session.deck_id, 0, session) IN
    \/ Unauthorized("create_study_session", token, args)
    \/ /\ Authenticated(token)
       /\ get_deck(session.deck_id) = {}
       /\ resp' = Response("create_study_session", token, args, 403,
                           Detail("Not authorized to study this deck"))
       /\ UNCHANGED <<db, uuid, now, catalog, inflight>>
    \/ DeckForbidden("create_study_session", token, args)
    \/ /\ DeckOwned(token, session.deck_id)
       /\ sessions' = crud_create_study_session(session, CurrentUser(token))
       /\ uuid' = [uuid EXCEPT !.session = @ + 1]
       /\ resp' = Response("create_study_session", token, args, 200, sessions'[uuid.session])
       /\ UNCHANGED <<users, decks, words, progress, now, catalog, inflight>>

\* The answers of update_word_progress that come before the lookup.
ProgressRejected(token, word_id, progress_update) ==
    LET args == Args(0, word_id, progress_update) IN
    \/ Unauthorized("update_word_progress", token, args)
    \/ /\ Authenticated(token)
       /\ get_word(word_id) = {}
       /\ resp' = Response("update_word_progress", token, args, 404, Detail("Word not found"))
       /\ UNCHANGED <<db, uuid, now, catalog, inflight>>
    \/ /\ Authenticated(token)
       /\ get_word(word_id) # {}
       /\ decks[words[word_id].deck_id].user_id # CurrentUser(token)
       /\ resp' = Response("update_word_progress", token, args, 403,
                           Detail("Not authorized to update progress for this word"))
       /\ UNCHANGED <<db, uuid, now, catalog, inflight>>

ProgressAdmitted_Anyone(token, word_id) ==
    Authenticated(token) /\ get_word(word_id) # {}
ProgressAdmitted(token, word_id) ==
    /\ Authenticated(token)
    /\ get_word(word_id) # {}
    /\ decks[words[word_id].deck_id].user_id = CurrentUser(token)

\* The commit of update_word_progress and the handler's answer to it.
ProgressCommit(token, word_id, progress_update, found) ==
    LET args == Args(0, word_id, progress_update)
        out == flush_progress(found, word_id, CurrentUser(token), progress_update.status)
    IN  /\ progress' = out.table
        /\ resp' = IF out.ok
                   THEN Response("update_word_progress", token, args, 200, out.row)
                   ELSE Response("update_word_progress", token, args, 500,
                                 Detail("Internal Server Error"))
        /\ UNCHANGED <<users, decks, words, sessions, uuid, now, catalog>>

study_update_word_progress(token, word_id, progress_update) ==
    \/ ProgressRejected(token, word_id, progress_update)
    \/ /\ ProgressAdmitted(token, word_id)
       /\ ProgressCommit(token, word_id, progress_update,
                         query_progress(word_id, CurrentUser(token)))
       /\ UNCHANGED inflight

-----------------------------------------------------------------------------
(* app/main.py: the handlers declared on the application itself *)

\* hashed_password = user.password + "_hashed"
main_hashed_password(password) == <<"plain", password, "_hashed">>

main_create_user(user) ==
    /\ IF get_user_by_email(user.email) # {}
       THEN /\ resp' = Response("main.create_user", NoToken, NoArgs, 400,
                                Detail("Email already registered"))
            /\ UNCHANGED <<users, uuid>>
       ELSE /\ users' = Insert(users, uuid.user,
                               NewUser(user.email, user.full_name,
                                       main_hashed_password(user.password)))
            /\ uuid' = [uuid EXCEPT !.user = @ + 1]
            /\ resp' = Response("main.create_user", NoToken, NoArgs, 200, users'[uuid.user])
    /\ UNCHANGED <<decks, words, sessions, progress, now, catalog, inflight>>

main_read_user(user_id) ==
    /\ resp' = IF user_id \in DOMAIN users
               THEN Response("main.read_user", NoToken, NoArgs, 200, users[user_id])
               ELSE Response("main.read_user", NoToken, NoArgs, 404, Detail("User not found"))
    /\ UNCHANGED <<db, uuid, now, catalog, inflight>>

main_create_deck_for_user(user_id, deck) ==
    LET args == Args(0, 0, deck) IN
    /\ IF user_id \notin DOMAIN users
       THEN /\ resp' = Response("main.create_deck_for_user", NoToken, args, 404,
                                Detail("User not found"))
            /\ UNCHANGED <<decks, uuid>>
       ELSE /\ decks' = crud_create_deck(deck, user_id)
            /\ uuid' = [uuid EXCEPT !.deck = @ + 1]
            /\ resp' = Response("main.create_deck_for_user", NoToken, args, 200,
                                decks'[uuid.deck])
    /\ UNCHANGED <<users, words, sessions, progress, now, catalog, inflight>>

\* db.query(Deck).offset(0).limit(100).all(): every deck of every user.
main_read_decks ==
    /\ resp' = Response("main.read_decks", NoToken, NoArgs, 200, [decks |-> DOMAIN decks])
    /\ UNCHANGED <<db, uuid, now, catalog, inflight>>

main_create_word_for_deck(deck_id, word) ==
    LET args == Args(deck_id, 0, word) IN
    /\ IF get_deck(deck_id) = {}
       THEN /\ resp' = Response("main.create_word_for_deck", NoToken, args, 404,
                                Detail("Deck not found"))
            /\ UNCHANGED <<words, uuid>>
       ELSE /\ words' = crud_create_word(word, deck_id)
            /\ uuid' = [uuid EXCEPT !.word = @ + 1]
            /\ resp' = Response("main.create_word_for_deck", NoToken, args, 200,
                                words'[uuid.word])
    /\ UNCHANGED <<users, decks, sessions, progress, now, catalog, inflight>>

-----------------------------------------------------------------------------
(* app/routers/auth.py: POST /auth/google *)

\* email = f"user_{google_token.google_token[:10]}@google.com"; the tokens of
\* the model are shorter than ten characters.
GoogleEmail(google_token) == "user_" \o google_token \o "@google.com"

auth_google(google_token) ==
    LET email == GoogleEmail(google_token) IN
    /\ IF get_user_by_email(email) = {}
       THEN /\ users' = Insert(users, uuid.user, NewUser(email, "Google User", None))
            /\ uuid' = [uuid EXCEPT !.user = @ + 1]
            /\ resp' = Response("google", NoToken, NoArgs, 200,
                                [access_token |-> email, user |-> uuid.user])
       ELSE /\ resp' = Response("google", NoToken, NoArgs, 200,
                                [access_token |-> email,
                                 user |-> CHOOSE u \in get_user_by_email(email) : TRUE])
            /\ UNCHANGED <<users, uuid>>
    /\ UNCHANGED <<decks, words, sessions, progress, now, catalog, inflight>>

-----------------------------------------------------------------------------
(* app/crud.py: get_user_stats *)

TicksPerDay == 2

\* The clock counts ticks from Monday 2017-01-02 00:00 UTC; 2017, 2018 and 2019
\* have 365 days each.
DaysInMonth == <<31, 28, 31, 30, 31, 30, 31, 31, 30, 31, 30, 31>>
MonthAbbr == <<"Jan", "Feb", "Mar", "Apr", "May", "Jun",
               "Jul", "Aug", "Sep", "Oct", "Nov", "Dec">>
DayAbbr == <<"Mon", "Tue", "Wed", "Thu", "Fri", "Sat", "Sun">>

\* func.date(t) and datetime.date(): the calendar day of the clock value t,
\* counted from the day the clock starts.
date(t) == t \div TicksPerDay

\* timedelta(days=n)
timedelta(days) == days * TicksPerDay

\* The year and the day of that year (from 0) of the calendar day d.
YearOf(d) == 2017 + ((d + 1) \div 365)
YearDayOf(d) == (d + 1) % 365

RECURSIVE MonthOfYearDay(_, _)
MonthOfYearDay(yday, m) ==
    IF yday < DaysInMonth[m] THEN m ELSE MonthOfYearDay(yday - DaysInMonth[m], m + 1)

RECURSIVE MonthDayOfYearDay(_, _)
MonthDayOfYearDay(yday, m) ==
    IF yday < DaysInMonth[m] THEN yday + 1
    ELSE MonthDayOfYearDay(yday - DaysInMonth[m], m + 1)

\* func.to_char(t, 'YYYY-MM'): the year and the month of t.
to_char_YYYY_MM(t) == <<YearOf(date(t)), MonthOfYearDay(YearDayOf(date(t)), 1)>>

\* day.strftime('%Y-%m-%d'): the year, month and day of the month of the day d.
strftime_Ymd(d) ==
    <<YearOf(d), MonthOfYearDay(YearDayOf(d), 1), MonthDayOfYearDay(YearDayOf(d), 1)>>

\* day.strftime('%a')
strftime_a(d) == DayAbbr[(d % 7) + 1]

\* datetime.strptime(month, '%Y-%m').strftime('%b')
strftime_b(month) == MonthAbbr[month[2]]

\* datetime.weekday() of the clock value t: Monday is 0.
weekday(t) == (t \div TicksPerDay) % 7

\* start_of_week = today - timedelta(days=today.weekday())
start_of_week(today) == today - weekday(today) * TicksPerDay

SessionsOfUser(user_id) == {s \in DOMAIN sessions : sessions[s].user_id = user_id}

\* func.sum(...) or 0 over the rows in S.
SumField(S, field) == SumOver(S, [s \in S |-> sessions[s][field]])

\* The sessions func.avg(score_percentage) runs over: the user's quiz sessions.
QuizSessions_AnyType(user_id) == SessionsOfUser(user_id)
QuizSessions(user_id) ==
    {s \in SessionsOfUser(user_id) : sessions[s].session_type = "quiz"}

\* accuracy_result or 0.0: AVG skips the rows whose score is NULL and is NULL
\* over no row; the quotient is exact.
accuracy_rate(user_id) ==
    LET scored == {s \in QuizSessions(user_id) : sessions[s].score_percentage # NoScore} IN
    IF scored = {} THEN <<0, 1>>
    ELSE Ratio(SumOver(scored, [s \in scored |-> sessions[s].score_percentage[1]]),
               Cardinality(scored))

\* count(distinct(date(completed_at)))
days_active(user_id) ==
    Cardinality({date(sessions[s].completed_at) : s \in SessionsOfUser(user_id)})

weekly_words_goal(user_id) == users[user_id].daily_goal * 7

weekly_progress_result(user_id, today) ==
    SumField({s \in SessionsOfUser(user_id) : sessions[s].completed_at >= start_of_week(today)},
             "words_reviewed")

\* The progress rows func.count(word_id) counts for total_words_mastered.
total_mastered_AnyStatus(user_id) ==
    BagCardinality(BagFilter(progress, {r \in DOMAIN progress : r.user_id = user_id}))
total_mastered(user_id) ==
    BagCardinality(BagFilter(progress,
        {r \in DOMAIN progress : r.user_id = user_id /\ r.status = "mastered"}))

\* The keys of S in increasing order of rank[k].
RECURSIVE Ordered(_, _)
Ordered(S, rank) ==
    IF S = {} THEN << >>
    ELSE LET k == CHOOSE x \in S : \A y \in S : rank[x] <= rank[y]
         IN  <<k>> \o Ordered(S \ {k}, rank)

\* The 6-month progress: GROUP BY month ORDER BY month over the user's sessions
\* of the last 180 days, one entry per month that has a session.
monthly_progress(user_id, today) ==
    LET six_months_ago == today - timedelta(180)
        rows == {s \in SessionsOfUser(user_id) : sessions[s].completed_at >= six_months_ago}
        months == {to_char_YYYY_MM(sessions[s].completed_at) : s \in rows}
        order == Ordered(months, [m \in months |-> m[1] * 12 + m[2]])
    IN  [i \in 1..Len(order) |->
            [month |-> strftime_b(order[i]),
             words_studied |->
                 SumField({s \in rows : to_char_YYYY_MM(sessions[s].completed_at) = order[i]},
                          "words_reviewed")]]

\* Word JOIN UserWordProgress filtered by the user: the joined rows.
DifficultyRows_AnyUser(user_id) ==
    {r \in DOMAIN progress : r.word_id \in DOMAIN words}
DifficultyRows(user_id) ==
    {r \in DOMAIN progress : r.word_id \in DOMAIN words /\ r.user_id = user_id}

\* func.count(case((Word.difficulty == d, 1))) for each difficulty.
difficulty_counts(user_id) ==
    [d \in DifficultyEnum |->
        BagCardinality(BagFilter(progress,
            {r \in DifficultyRows(user_id) : words[r.word_id].difficulty = d}))]

\* activity_map.get(date_key, 0)
activity_map_get_Carry(activity_map, date_key) ==
    IF date_key \in DOMAIN activity_map THEN activity_map[date_key]
    ELSE SumOver(DOMAIN activity_map, activity_map)
activity_map_get(activity_map, date_key) ==
    IF date_key \in DOMAIN activity_map THEN activity_map[date_key] ELSE 0

\* This week's activity: the sessions since seven_days_ago grouped by date,
\* then one entry for each of the 7 days from seven_days_ago.date().
weekly_activity(user_id, today) ==
    LET seven_days_ago == today - timedelta(6)
        rows == {s \in SessionsOfUser(user_id) : sessions[s].completed_at >= seven_days_ago}
        dates == {date(sessions[s].completed_at) : s \in rows}
        activity_map ==
            [k \in {strftime_Ymd(d) : d \in dates} |->
                SumField({s \in rows : strftime_Ymd(date(sessions[s].completed_at)) = k},
                         "words_reviewed")]
    IN  [i \in 1..7 |->
            LET day == date(seven_days_ago) + (i - 1) IN
            [day |-> strftime_a(day),
             words_studied |-> activity_map_get(activity_map, strftime_Ymd(day))]]

get_user_stats(user_id) ==
    [study_time_seconds |-> SumField(SessionsOfUser(user_id), "duration_seconds"),
     accuracy_rate |-> accuracy_rate(user_id),
     total_words_mastered |-> total_mastered(user_id),
     days_active |-> days_active(user_id),
     weekly_words_goal |-> weekly_words_goal(user_id),
     weekly_words_progress |-> weekly_progress_result(user_id, now),
     monthly_progress |-> monthly_progress(user_id, now),
     difficulty_breakdown |->
         [easy |-> difficulty_counts(user_id)["easy"],
          medium |-> difficulty_counts(user_id)["medium"],
          hard |-> difficulty_counts(user_id)["hard"]],
     weekly_activity |-> weekly_activity(user_id, now)]

\* crud.get_user_stats(db, user) called for a stored user.
call_get_user_stats(user_id) ==
    /\ user_id \in DOMAIN users
    /\ resp' = Response("crud.get_user_stats", users[user_id].email, NoArgs, 200,
                        get_user_stats(user_id))
    /\ UNCHANGED <<db, uuid, now, catalog, inflight>>

-----------------------------------------------------------------------------
(* app/routers/users.py *)

\* The parameters of the functions of app/crud.py the users router calls; none
\* has a default value.
update_user_profile_parameters == {"db", "user_id", "profile_update"}
update_user_settings_parameters == {"db", "user_id", "settings_update"}
get_user_stats_parameters == {"db", "user"}

\* A call with keyword arguments only binds when every keyword names a
\* parameter and every parameter is given; otherwise Python raises TypeError
\* before the function runs.
Binds(parameters, keywords) == keywords \subseteq parameters /\ parameters \subseteq keywords

\* update_user_profile / update_user_settings: setattr for every item of
\* model_dump(exclude_unset=True), then commit.
crud_update_user(user_id, update) ==
    [users EXCEPT ![user_id] = ApplyPatch(@, update)]

\* A PUT handler of the users router that calls crud with the keywords `keywords`.
users_update(route, token, update, parameters, keywords) ==
    LET args == Args(0, 0, update) IN
    \/ Unauthorized(route, token, args)
    \/ /\ Authenticated(token)
       /\ IF Binds(parameters, keywords)
          THEN /\ users' = crud_update_user(CurrentUser(token), update)
               /\ resp' = Response(route, token, args, 200, users'[CurrentUser(token)])
          ELSE /\ resp' = Response(route, token, args, 500, Detail("Internal Server Error"))
               /\ UNCHANGED users
       /\ UNCHANGED <<decks, words, sessions, progress, uuid, now, catalog, inflight>>

\* crud.update_user_profile(db=db, user=current_user, profile_update=profile_update)
users_update_user_me(token, profile_update) ==
    users_update("update_user_me", token, profile_update,
                 update_user_profile_parameters, {"db", "user", "profile_update"})

\* crud.update_user_settings(db=db, user=current_user, settings_update=settings_update)
users_update_user_me_settings(token, settings_update) ==
    users_update("update_user_me_settings", token, settings_update,
                 update_user_settings_parameters, {"db", "user", "settings_update"})

\* crud.get_user_stats(db=db, user_id=current_user)
users_read_user_me_stats(token) ==
    \/ Unauthorized("read_user_me_stats", token, NoArgs)
    \/ /\ Authenticated(token)
       /\ resp' = IF Binds(get_user_stats_parameters, {"db", "user_id"})
                  THEN Response("read_user_me_stats", token, NoArgs, 200,
                                get_user_stats(CurrentUser(token)))
                  ELSE Response("read_user_me_stats", token, NoArgs, 500,
                                Detail("Internal Server Error"))
       /\ UNCHANGED <<db, uuid, now, catalog, inflight>>

-----------------------------------------------------------------------------
(* app/seed.py *)

ACHIEVEMENTS_TO_CREATE ==
    <<[title |-> "First Steps", description |-> "Learn your first 10 words", icon_name |-> "star"],
      [title |-> "Word Master", description |-> "Learn 100 words", icon_name |-> "award"],
      [title |-> "Streak Warrior", description |-> "Maintain a 7-day streak", icon_name |-> "zap"],
      [title |-> "Polyglot", description |-> "Study 3 different languages", icon_name |-> "globe"],
      [title |-> "Dedicated Learner", description |-> "Study for 30 consecutive days",
       icon_name |-> "calendar"]>>

\* db.query(Achievement).filter(Achievement.title == title): the rows found.
AchievementsTitled_None(title) == {}
AchievementsTitled(title) == {a \in DOMAIN achievements : achievements[a].title = title}

\* Achievement.title, unique=True.
TitleUnique(title) == \A a \in DOMAIN achievements : achievements[a].title # title

\* The script starts: a new session with nothing added.
seed_start ==
    /\ seeding' = Append(seeding, [at |-> 0, pending |-> {}, state |-> "running"])
    /\ UNCHANGED <<db, uuid, now, inflight, resp, achievements>>

\* One turn of the loop of run r: the lookup by title and, when it finds no
\* row, db.add of a new one (the session does not autoflush).
seed_step(r) ==
    /\ r \in DOMAIN seeding
    /\ seeding[r].state = "running"
    /\ seeding[r].at < Len(ACHIEVEMENTS_TO_CREATE)
    /\ LET i == seeding[r].at + 1 IN
       seeding' = [seeding EXCEPT
                      ![r].at = i,
                      ![r].pending =
                          IF AchievementsTitled(ACHIEVEMENTS_TO_CREATE[i].title) = {}
                          THEN @ \cup {i} ELSE @]
    /\ UNCHANGED <<db, uuid, now, inflight, resp, achievements>>

\* db.commit() of run r: the pending rows are inserted under fresh ids, all
\* or, when an insert is refused, none.
seed_commit(r) ==
    /\ r \in DOMAIN seeding
    /\ seeding[r].state = "running"
    /\ seeding[r].at = Len(ACHIEVEMENTS_TO_CREATE)
    /\ LET pending == seeding[r].pending
           order == Ordered(pending, [i \in pending |-> i])
           ids == uuid.achievement..(uuid.achievement + Len(order) - 1)
       IN  IF \A i \in pending : TitleUnique(ACHIEVEMENTS_TO_CREATE[i].title)
           THEN /\ achievements' =
                      [a \in DOMAIN achievements \cup ids |->
                          IF a \in ids
                          THEN ACHIEVEMENTS_TO_CREATE[order[a - uuid.achievement + 1]]
                          ELSE achievements[a]]
                /\ uuid' = [uuid EXCEPT !.achievement = @ + Len(order)]
                /\ seeding' = [seeding EXCEPT ![r].state = "committed"]
           ELSE /\ seeding' = [seeding EXCEPT ![r].state = "failed"]
                /\ UNCHANGED <<achievements, uuid>>
    /\ UNCHANGED <<db, now, inflight, resp>>

-----------------------------------------------------------------------------
(* The clock, and requests that overlap *)

\* Time passes between two requests.
Tick(ticks) ==
    /\ now' = now + ticks
    /\ resp' = Response("none", NoToken, NoArgs, 0, Detail(""))
    /\ UNCHANGED <<db, uuid, inflight, catalog>>

\* A worker runs update_word_progress up to and including its lookup; the
\* answers that come before the lookup end the request at once.
progress_begin(p, token, word_id, progress_update) ==
    /\ p \notin DOMAIN inflight
    /\ \/ ProgressRejected(token, word_id, progress_update)
       \/ /\ ProgressAdmitted(token, word_id)
          /\ inflight' = Insert(inflight, p,
                                [token |-> token, word_id |-> word_id,
                                 progress_update |-> progress_update,
                                 found |-> query_progress(word_id, CurrentUser(token))])
          /\ UNCHANGED <<db, uuid, now, catalog, resp>>

\* The worker commits what it computed from its lookup.
progress_commit(p) ==
    /\ p \in DOMAIN inflight
    /\ ProgressCommit(inflight[p].token, inflight[p].word_id,
                      inflight[p].progress_update, inflight[p].found)
    /\ inflight' = Remove(inflight, {p})

\* User.email, unique=True: the INSERT of a second row with the email is refused.
EmailUnique(email) == get_user_by_email(email) = {}

\* A worker runs register_user up to and including its email lookup.
register_begin(p, user) ==
    /\ p \notin DOMAIN inflight
    /\ IF get_user_by_email(user.email) # {}
       THEN /\ resp' = Response("register", NoToken, Args(0, 0, user), 400,
                                Detail("Email already registered"))
            /\ UNCHANGED inflight
       ELSE /\ inflight' = Insert(inflight, p, [user |-> user])
            /\ UNCHANGED resp
    /\ UNCHANGED <<db, uuid, now, catalog>>

\* The worker's crud.create_user: db.add and db.commit. A refused INSERT
\* raises IntegrityError, which no handler catches.
register_commit(p) ==
    /\ p \in DOMAIN inflight
    /\ LET user == inflight[p].user IN
       IF EmailUnique(user.email)
       THEN /\ users' = crud_create_user(user)
            /\ uuid' = [uuid EXCEPT !.user = @ + 1]
            /\ resp' = Response("register", NoToken, Args(0, 0, user), 200,
                                [access_token |-> user.email, user |-> uuid.user])
       ELSE /\ resp' = Response("register", NoToken, Args(0, 0, user), 500,
                                Detail("Internal Server Error"))
            /\ UNCHANGED <<users, uuid>>
    /\ inflight' = Remove(inflight, {p})
    /\ UNCHANGED <<decks, words, sessions, progress, now, catalog>>

-----------------------------------------------------------------------------
(* Specifications *)

Init ==
    /\ users = [u \in {} |-> None]
    /\ decks = [d \in {} |-> None]
    /\ words = [w \in {} |-> None]
    /\ sessions = [s \in {} |-> None]
    /\ progress = EmptyBag
    /\ uuid = [user |-> 1, deck |-> 1, word |-> 1, session |-> 1, achievement |-> 1]
    /\ now = 0
    /\ inflight = [p \in {} |-> None]
    /\ resp = Response("none", NoToken, NoArgs, 0, Detail(""))
    /\ achievements = [a \in {} |-> None]
    /\ seeding = << >>

\* The request bodies the clients of the model send.
UserCreates == [email : Emails, full_name : {"n"}, password : {"pw"}]
DeckCreates == [title : {"t0"}, description : {None}, category : {"c0"}]
WordCreates == [word : {"w0"}, definition : {"d0"}, example : {None}, difficulty : {"easy"}]
DeckRenames == {[f \in {"title"} |-> "t1"]}
WordRenames == {[f \in {"word"} |-> "w1"]}
ProgressUpdates == [status : StatusEnum]
SessionCreates(deck_ids) ==
    [deck_id : deck_ids, session_type : {"flashcard"}, score_percentage : {NoScore},
     words_reviewed : {3}, duration_seconds : {60}]

\* A single client.
Learner == {"a@x"}
LearnerCreates == [email : Learner, full_name : {"n"}, password : {"pw"}]

\* No progress row of the word has reached the largest streak of the model.
StreakBelow(word_id, max) ==
    \A r \in DOMAIN progress : r.word_id = word_id => r.correct_streak < max

\* The partial updates the clients send: every subset of the fields.
Patches(fields, value) ==
    UNION {[S -> {value}] : S \in SUBSET fields}
DeckPatches == Patches(DeckFields, "v1")
WordPatches ==
    {[f \in DOMAIN p |-> IF f = "difficulty" THEN "hard" ELSE p[f]] : p \in Patches(WordFields, "v1")}

(* The authenticated API of the deck, word and study routers, one request at a time. *)
Next ==
    \/ \E user \in UserCreates : uuid.user <= MaxUsers /\ register_user(user)
    \/ \E token \in Emails, deck \in DeckCreates :
          uuid.deck <= MaxDecks /\ decks_create_deck(token, deck)
    \/ \E token \in Emails, d \in 1..MaxDecks, patch \in DeckRenames :
          decks_update_deck(token, d, patch)
    \/ \E token \in Emails, d \in 1..MaxDecks : decks_delete_deck(token, d)
    \/ \E token \in Emails, d \in 1..MaxDecks, word \in WordCreates :
          uuid.word <= MaxWords /\ words_create_word_for_deck_endpoint(token, d, word)
    \/ \E token \in Emails, d \in 1..MaxDecks, w \in 1..MaxWords, patch \in WordRenames :
          words_update_word_endpoint(token, d, w, patch)
    \/ \E token \in Emails, d \in 1..MaxDecks, w \in 1..MaxWords :
          words_delete_word_endpoint(token, d, w)
    \/ \E token \in Emails, session \in SessionCreates(1..MaxDecks) :
          uuid.session <= MaxSessions /\ study_create_study_session(token, session)
    \/ \E token \in Emails, w \in 1..MaxWords, upd \in ProgressUpdates :
          StreakBelow(w, MaxStreak) /\ study_update_word_progress(token, w, upd)

Spec == Init /\ [][Next]_vars

(* Deck deletion and what follows it. *)
NextCascade ==
    \/ \E user \in UserCreates : register_user(user)
    \/ \E token \in Emails, deck \in DeckCreates :
          uuid.deck <= CascadeDecks /\ decks_create_deck(token, deck)
    \/ \E token \in Emails, d \in 1..CascadeDecks : decks_delete_deck(token, d)
    \/ \E token \in Emails, d \in 1..CascadeDecks, word \in WordCreates :
          (uuid.word <= CascadeWords \/ get_deck(d) = {})
             /\ words_create_word_for_deck_endpoint(token, d, word)
    \/ \E token \in Emails, d \in 1..CascadeDecks, w \in 1..CascadeWords, patch \in WordRenames :
          words_update_word_endpoint(token, d, w, patch)
    \/ \E token \in Emails, d \in 1..CascadeDecks, w \in 1..CascadeWords :
          words_delete_word_endpoint(token, d, w)
    \/ \E d \in 1..CascadeDecks, word \in WordCreates :
          (uuid.word <= CascadeWords \/ get_deck(d) = {})
             /\ main_create_word_for_deck(d, word)
    \/ \E token \in Emails, session \in SessionCreates(1..CascadeDecks) :
          (uuid.session <= CascadeSessions \/ get_deck(session.deck_id) = {})
             /\ study_create_study_session(token, session)

SpecCascade == Init /\ [][NextCascade]_vars

(* The deck, word and study routers used by two users on each other's ids. *)
\* The decks, words and sessions created so far.
OwnerCreated == (uuid.deck - 1) + (uuid.word - 1) + (uuid.session - 1)

\* The ids handed out so far, of stored and of deleted rows.
DecksCreated == 1..(uuid.deck - 1)
WordsCreated == 1..(uuid.word - 1)

NextOwner ==
    \/ \E user \in UserCreates : register_user(user)
    \/ \E token \in Emails, deck \in DeckCreates :
          OwnerCreated < OwnerRows /\ decks_create_deck(token, deck)
    \/ \E token \in Emails, d \in DecksCreated, patch \in DeckRenames :
          decks_update_deck(token, d, patch)
    \/ \E token \in Emails, d \in DecksCreated : decks_delete_deck(token, d)
    \/ \E token \in Emails, d \in DecksCreated, word \in WordCreates :
          (OwnerCreated < OwnerRows \/ get_deck(d) = {})
             /\ words_create_word_for_deck_endpoint(token, d, word)
    \/ \E token \in Emails, d \in DecksCreated, w \in WordsCreated, patch \in WordRenames :
          words_update_word_endpoint(token, d, w, patch)
    \/ \E token \in Emails, d \in DecksCreated, w \in WordsCreated :
          words_delete_word_endpoint(token, d, w)
    \/ \E token \in Emails, session \in SessionCreates(DecksCreated) :
          (OwnerCreated < OwnerRows \/ get_deck(session.deck_id) = {})
             /\ study_create_study_session(token, session)
    \/ \E token \in Emails, w \in WordsCreated, upd \in ProgressUpdates :
          StreakBelow(w, 1) /\ study_update_word_progress(token, w, upd)

SpecOwner == Init /\ [][NextOwner]_vars

(* Partial updates of decks and words. *)
\* The decks and words created so far.
RowsCreated == (uuid.deck - 1) + (uuid.word - 1)

NextPatch ==
    \/ \E user \in LearnerCreates : register_user(user)
    \/ \E token \in Learner, deck \in DeckCreates :
          RowsCreated < PatchRows /\ decks_create_deck(token, deck)
    \/ \E token \in Learner, d \in 1..uuid.deck, patch \in DeckPatches :
          decks_update_deck(token, d, patch)
    \/ \E token \in Learner, d \in DOMAIN decks, word \in WordCreates :
          RowsCreated < PatchRows /\ words_create_word_for_deck_endpoint(token, d, word)
    \/ \E token \in Learner, w \in 1..uuid.word, patch \in WordPatches :
          \E d \in {x \in DOMAIN decks : w \in DOMAIN words => x = words[w].deck_id} :
             words_update_word_endpoint(token, d, w, patch)

SpecPatch == Init /\ [][NextPatch]_vars

(* One learner's deck: progress updates and the deck detail. *)

NextStudy ==
    \/ \E user \in UserCreates : register_user(user)
    \/ \E token \in Learner, deck \in DeckCreates :
          uuid.deck <= 1 /\ decks_create_deck(token, deck)
    \/ \E token \in Learner, word \in WordCreates :
          uuid.word <= StudyWords /\ words_create_word_for_deck_endpoint(token, 1, word)
    \/ \E token \in Learner, w \in 1..StudyWords :
          words_delete_word_endpoint(token, 1, w)
    \/ \E token \in Learner, w \in 1..StudyWords, upd \in ProgressUpdates :
          StreakBelow(w, StudyStreak) /\ study_update_word_progress(token, w, upd)
    \/ \E token \in Emails : decks_read_deck(token, 1)

SpecStudy == Init /\ [][NextStudy]_vars

(* Progress updates of several workers, interleaved at their lookups and commits. *)
NextConc ==
    \/ \E user \in UserCreates : register_user(user)
    \/ \E token \in Learner, deck \in DeckCreates :
          uuid.deck <= 1 /\ decks_create_deck(token, deck)
    \/ \E token \in Learner, word \in WordCreates :
          uuid.word <= ConcWords /\ words_create_word_for_deck_endpoint(token, 1, word)
    \/ \E token \in Emails, w \in 1..ConcWords :
          words_delete_word_endpoint(token, 1, w)
    \/ \E p \in 1..ConcWorkers, token \in Learner, w \in 1..ConcWords, upd \in ProgressUpdates :
          StreakBelow(w, ConcStreak) /\ progress_begin(p, token, w, upd)
    \/ \E p \in 1..ConcWorkers : progress_commit(p)

SpecConc == Init /\ [][NextConc]_vars

(* Study sessions logged over a week and the statistics computed from them. *)
NextStats ==
    \/ \E user \in LearnerCreates : register_user(user)
    \/ \E token \in Learner, deck \in DeckCreates :
          uuid.deck <= 1 /\ decks_create_deck(token, deck)
    \/ \E token \in Learner, session \in SessionCreates({1}) :
          uuid.session <= StatsSessions /\ study_create_study_session(token, session)
    \/ now < StatsTime /\ Tick(1)
    \/ now < StatsTime /\ Tick(timedelta(6))
    \/ \E u \in DOMAIN users : call_get_user_stats(u)

SpecStats == Init /\ [][NextStats]_vars

(* The handlers that ask for no token. *)
GoogleTokens == {"g1"}

NextOpen ==
    \/ \E user \in UserCreates : uuid.user <= OpenUsers /\ register_user(user)
    \/ \E user \in UserCreates : uuid.user <= OpenUsers /\ main_create_user(user)
    \/ \E google_token \in GoogleTokens : uuid.user <= OpenUsers /\ auth_google(google_token)
    \/ \E u \in 1..OpenUsers : main_read_user(u)
    \/ \E u \in 1..OpenUsers, deck \in DeckCreates :
          uuid.deck <= OpenDecks /\ main_create_deck_for_user(u, deck)
    \/ main_read_decks
    \/ \E d \in 1..OpenDecks, word \in WordCreates :
          uuid.word <= OpenWords /\ main_create_word_for_deck(d, word)
    \/ \E token \in Tokens, d \in 1..OpenDecks : decks_read_deck(token, d)

SpecOpen == Init /\ [][NextOpen]_vars

(* Sessions logged about once a month and the 6-month progress computed from them. *)
NextMonths ==
    \/ \E user \in LearnerCreates : register_user(user)
    \/ \E token \in Learner, deck \in DeckCreates :
          uuid.deck <= 1 /\ decks_create_deck(token, deck)
    \/ \E token \in Learner, session \in SessionCreates({1}) :
          uuid.session <= MonthsSessions /\ study_create_study_session(token, session)
    \/ now < timedelta(30 * MonthsSteps) /\ Tick(timedelta(30))
    \/ \E u \in DOMAIN users : call_get_user_stats(u)

SpecMonths == Init /\ [][NextMonths]_vars

(* Flashcard and quiz sessions of two users and the accuracy computed from them. *)
QuizCreates ==
    {x \in [deck_id : 1..2, session_type : SessionTypeEnum,
            score_percentage : {NoScore, Score(40), Score(100)},
            words_reviewed : {3}, duration_seconds : {60}] :
        x.session_type = "flashcard" => x.score_percentage = Score(100)}

NextQuiz ==
    \/ \E user \in UserCreates : register_user(user)
    \/ \E token \in Emails, deck \in DeckCreates :
          (uuid.deck <= 2 /\ \A d \in DOMAIN decks : decks[d].user_id \notin get_current_user(token))
             /\ decks_create_deck(token, deck)
    \/ \E token \in Emails, session \in QuizCreates :
          uuid.session <= QuizLogged /\ study_create_study_session(token, session)
    \/ \E u \in DOMAIN users : call_get_user_stats(u)

SpecQuiz == Init /\ [][NextQuiz]_vars

(* Registrations of several workers, interleaved at their lookups and commits. *)
NextSignup ==
    \/ \E p \in 1..SignupWorkers, user \in UserCreates : register_begin(p, user)
    \/ \E p \in 1..SignupWorkers : register_commit(p)

SpecSignup == Init /\ [][NextSignup]_vars

(* Two users who build, study and delete their decks, and their dashboards. *)
NextDash ==
    \/ \E user \in UserCreates : register_user(user)
    \/ \E token \in Emails, deck \in DeckCreates :
          (uuid.deck <= 2 /\ \A d \in DOMAIN decks : decks[d].user_id \notin get_current_user(token))
             /\ decks_create_deck(token, deck)
    \/ \E token \in Emails, d \in 1..2 : decks_delete_deck(token, d)
    \/ \E token \in Emails, d \in DOMAIN decks, word \in WordCreates :
          uuid.word <= DashWords /\ words_create_word_for_deck_endpoint(token, d, word)
    \/ \E token \in Emails, session \in SessionCreates(DOMAIN decks) :
          uuid.session <= DashSessions /\ study_create_study_session(token, session)
    \/ \E token \in Emails, w \in DOMAIN words, upd \in ProgressUpdates :
          StreakBelow(w, 1) /\ study_update_word_progress(token, w, upd)
    \/ \E u \in DOMAIN users : call_get_user_stats(u)

SpecDash == Init /\ [][NextDash]_vars

(* Two users, their words of every difficulty, and the difficulty breakdown. *)
WordKinds == [word : {"w0"}, definition : {"d0"}, example : {None}, difficulty : DifficultyEnum]

NextBreakdown ==
    \/ \E user \in UserCreates : register_user(user)
    \/ \E token \in Emails, deck \in DeckCreates :
          (uuid.deck <= 2 /\ \A d \in DOMAIN decks : decks[d].user_id \notin get_current_user(token))
             /\ decks_create_deck(token, deck)
    \/ \E token \in Emails, d \in DOMAIN decks, word \in WordKinds :
          uuid.word <= BreakdownWords /\ words_create_word_for_deck_endpoint(token, d, word)
    \/ \E token \in Emails, w \in DOMAIN words, upd \in ProgressUpdates :
          StreakBelow(w, 1) /\ study_update_word_progress(token, w, upd)
    \/ \E u \in DOMAIN users : call_get_user_stats(u)

SpecBreakdown == Init /\ [][NextBreakdown]_vars

(* The deck detail between changes of words, difficulties and progress. *)
DifficultyChanges == {[f \in {"difficulty"} |-> d] : d \in DifficultyEnum}

NextDetail ==
    \/ \E user \in UserCreates : register_user(user)
    \/ \E token \in Emails, deck \in DeckCreates :
          uuid.deck <= 1 /\ decks_create_deck(token, deck)
    \/ \E token \in Emails, word \in WordKinds :
          uuid.word <= DetailWords /\ words_create_word_for_deck_endpoint(token, 1, word)
    \/ \E token \in Emails, w \in WordsCreated, patch \in DifficultyChanges :
          words_update_word_endpoint(token, 1, w, patch)
    \/ \E token \in Emails, w \in WordsCreated :
          words_delete_word_endpoint(token, 1, w)
    \/ \E token \in Emails, w \in WordsCreated, upd \in ProgressUpdates :
          StreakBelow(w, 2) /\ study_update_word_progress(token, w, upd)
    \/ \E token \in Emails : decks_read_deck(token, 1)

SpecDetail == Init /\ [][NextDetail]_vars

(* The users router: profile, settings and statistics of the caller. *)
ProfileUpdates == Patches({"full_name", "bio", "avatar_url"}, "v1")
SettingsUpdates == {[f \in {"daily_goal"} |-> 20]}

NextProfile ==
    \/ \E user \in UserCreates : register_user(user)
    \/ \E token \in Emails, deck \in DeckCreates :
          uuid.deck <= 1 /\ decks_create_deck(token, deck)
    \/ \E token \in Emails, session \in SessionCreates({1}) :
          uuid.session <= 1 /\ study_create_study_session(token, session)
    \/ \E token \in Emails, update \in ProfileUpdates : users_update_user_me(token, update)
    \/ \E token \in Emails, update \in SettingsUpdates :
          users_update_user_me_settings(token, update)
    \/ \E token \in Emails : users_read_user_me_stats(token)

SpecProfile == Init /\ [][NextProfile]_vars

(* Runs of the seeding script on a catalog left by earlier deployments. *)
\* The catalogs the script may find: rows of some of its titles, written with
\* an earlier text, and possibly a row of a title it does not know.
StartingCatalogs ==
    {Ordered(S, [x \in S |-> x]) \o extra :
        S \in SUBSET (1..Len(ACHIEVEMENTS_TO_CREATE)), extra \in {<< >>, <<0>>}}

CatalogRow(i) ==
    IF i = 0 THEN [title |-> "Night Owl", description |-> "Study after midnight",
                   icon_name |-> "moon"]
    ELSE [ACHIEVEMENTS_TO_CREATE[i] EXCEPT !.description = "an earlier text"]

InitSeed ==
    /\ users = [u \in {} |-> None]
    /\ decks = [d \in {} |-> None]
    /\ words = [w \in {} |-> None]
    /\ sessions = [s \in {} |-> None]
    /\ progress = EmptyBag
    /\ \E start \in StartingCatalogs :
          /\ achievements = [a \in DOMAIN start |-> CatalogRow(start[a])]
          /\ uuid = [user |-> 1, deck |-> 1, word |-> 1, session |-> 1,
                     achievement |-> Len(start) + 1]
    /\ now = 0
    /\ inflight = [p \in {} |-> None]
    /\ resp = Response("none", NoToken, NoArgs, 0, Detail(""))
    /\ seeding = << >>

NextSeed ==
    \/ Len(seeding) < SeedRuns /\ seed_start
    \/ \E r \in 1..SeedRuns : seed_step(r)
    \/ \E r \in 1..SeedRuns : seed_commit(r)

SpecSeed == InitSeed /\ [][NextSeed]_vars

-----------------------------------------------------------------------------
(* Properties *)

\* The user a response was given to.
Caller(r) == CurrentUser(r.token)

\* C1: a word update (PUT /decks/{deck_id}/words/{word_id}) or word delete
\* only ever changes or removes a word whose deck is owned by the
\* authenticated user, whatever deck_id and word_id are in the path.
C1_WordMutationByOwnerOnly ==
    [][resp'.route \in {"update_word", "delete_word"} =>
          \A w \in DOMAIN words :
              (w \notin DOMAIN words' \/ words'[w] # words[w]) =>
                  /\ Authenticated(resp'.token)
                  /\ decks[words[w].deck_id].user_id = Caller(resp')]_vars

\* C2: on every route other than registration and login, a request that
\* carries no valid bearer token does not succeed: it creates, reads and
\* modifies nothing.
C2_TokenRequired ==
    (resp.route \notin {"none", "register", "login"} /\ ~Authenticated(resp.token))
        => resp.status # 200

\* The progress rows stored for a (user, word) pair, and how many there are.
RowsOfPair(table, user_id, word_id) ==
    {r \in DOMAIN table : r.user_id = user_id /\ r.word_id = word_id}
CountOfPair(table, user_id, word_id) ==
    BagCardinality(BagFilter(table, RowsOfPair(table, user_id, word_id)))

\* The rows of the other pairs are what they were.
OtherPairsUnchanged(user_id, word_id) ==
    BagFilter(progress', DOMAIN progress' \ RowsOfPair(progress', user_id, word_id))
        = BagFilter(progress, DOMAIN progress \ RowsOfPair(progress, user_id, word_id))

ProgressAnswered(r) == r.route = "update_word_progress" /\ r.status = 200

\* C3: update_word_progress on a pair that has a progress row sets status to
\* the provided value and increases correct_streak by exactly 1 when the new
\* status is mastered, else sets it to 0; so learning after mastered resets
\* the streak and mastered after mastered still increments it.
C3_ExistingRowUpdate ==
    [][(ProgressAnswered(resp') /\ RowsOfPair(progress, Caller(resp'), resp'.args.word_id) # {}) =>
          LET u == Caller(resp')
              w == resp'.args.word_id
              status == resp'.args.payload.status
              old == CHOOSE r \in RowsOfPair(progress, u, w) : TRUE
              streak == IF status = "mastered" THEN old.correct_streak + 1 ELSE 0
          IN  /\ CountOfPair(progress', u, w) = 1
              /\ \A r \in RowsOfPair(progress', u, w) :
                    r.status = status /\ r.correct_streak = streak
              /\ resp'.body.status = status
              /\ resp'.body.correct_streak = streak
              /\ OtherPairsUnchanged(u, w)]_vars

\* C3 happens: a word that was mastered is marked mastered again.
C3_Witness ==
    /\ ProgressAnswered(resp)
    /\ resp.body.status = "mastered"
    /\ resp.body.correct_streak = 2

\* C4: update_word_progress on a pair that has no progress row creates
\* exactly one row for the pair, with the provided status and correct_streak
\* 1 if the status is mastered, else 0; and a pair has no row before its
\* first update (rows appear in no other way).
C4_FirstUpdateCreatesRow ==
    [][/\ (ProgressAnswered(resp') /\ RowsOfPair(progress, Caller(resp'), resp'.args.word_id) = {}) =>
             LET u == Caller(resp')
                 w == resp'.args.word_id
                 status == resp'.args.payload.status
             IN  /\ CountOfPair(progress', u, w) = 1
                 /\ \A r \in RowsOfPair(progress', u, w) :
                       /\ r.status = status
                       /\ r.correct_streak = (IF status = "mastered" THEN 1 ELSE 0)
                 /\ OtherPairsUnchanged(u, w)
       /\ \A r \in DOMAIN progress' :
             RowsOfPair(progress, r.user_id, r.word_id) = {} =>
                 /\ ProgressAnswered(resp')
                 /\ resp'.args.word_id = r.word_id
                 /\ Caller(resp') = r.user_id]_vars

\* C4 happens: the only progress row was created by marking a word mastered.
C4_Witness ==
    /\ ProgressAnswered(resp)
    /\ resp.body.status = "mastered"
    /\ resp.body.correct_streak = 1
    /\ BagCardinality(progress) = 1
    /\ uuid.word = 2

\* C5: there is at most one UserWordProgress row per (user_id, word_id) pair,
\* also when progress updates of the same never-reviewed word overlap.
C5_OneRowPerPair ==
    \A r \in DOMAIN progress : CountOfPair(progress, r.user_id, r.word_id) <= 1

\* C5 happens: two updates of a never-reviewed word both looked up "no row";
\* one has committed its row and the other's insert was refused.
C5_Witness ==
    /\ resp.route = "update_word_progress"
    /\ resp.status = 500
    /\ RowsOfPair(progress, Caller(resp), resp.args.word_id) # {}

\* The decks that were created and have been deleted.
DeletedDecks == {d \in 1..(uuid.deck - 1) : d \notin DOMAIN decks}

WordRoutes == {"create_word", "update_word", "delete_word", "main.create_word_for_deck"}

\* C6: after a deck is deleted no Word and no StudySession row with that
\* deck_id remains, and every later word operation under that deck id (by an
\* authenticated caller) answers 404.
C6_DeckDeleteCascades ==
    \A d \in DeletedDecks :
        /\ \A w \in DOMAIN words : words[w].deck_id # d
        /\ \A x \in DOMAIN sessions : sessions[x].deck_id # d
        /\ (resp.route \in WordRoutes /\ resp.args.deck_id = d /\ resp.status # 401)
              => resp.status = 404

\* C6 happens: a deck that had a word and a study session was deleted, both
\* went with it, and a word update under the deleted id was answered 404.
C6_Witness ==
    \E d \in DeletedDecks :
        /\ uuid.word > 1 /\ DOMAIN words = {}
        /\ uuid.session > 1 /\ DOMAIN sessions = {}
        /\ resp.route = "update_word" /\ resp.args.deck_id = d /\ resp.status = 404

\* The row `after` is the row `before` with exactly the payload's fields replaced.
Patched(before, after, payload) ==
    /\ DOMAIN after = DOMAIN before
    /\ \A f \in DOMAIN before :
          after[f] = IF f \in DOMAIN payload THEN payload[f] ELSE before[f]

\* C7: a partial update of a deck or a word applies only the fields present
\* in the payload and leaves every other field, every other row and every
\* other table unchanged; an update whose id does not resolve changes nothing
\* and answers 404.
C7_PartialUpdate ==
    [][/\ resp'.route = "update_deck" =>
             LET d == resp'.args.deck_id IN
             IF resp'.status = 200
             THEN /\ DOMAIN decks' = DOMAIN decks
                  /\ Patched(decks[d], decks'[d], resp'.args.payload)
                  /\ \A e \in DOMAIN decks \ {d} : decks'[e] = decks[e]
                  /\ UNCHANGED <<users, words, sessions, progress>>
             ELSE /\ UNCHANGED db
                  /\ (Authenticated(resp'.token) /\ d \notin DOMAIN decks) => resp'.status = 404
       /\ resp'.route = "update_word" =>
             LET w == resp'.args.word_id IN
             IF resp'.status = 200
             THEN /\ DOMAIN words' = DOMAIN words
                  /\ Patched(words[w], words'[w], resp'.args.payload)
                  /\ \A x \in DOMAIN words \ {w} : words'[x] = words[x]
                  /\ UNCHANGED <<users, decks, sessions, progress>>
             ELSE /\ UNCHANGED db
                  /\ (DeckOwned(resp'.token, resp'.args.deck_id) /\ w \notin DOMAIN words)
                        => resp'.status = 404]_vars

\* C7 happens: only the title of a deck was updated, and its category and
\* description are the ones it was created with.
C7_Witness ==
    /\ resp.route = "update_deck" /\ resp.status = 200
    /\ DOMAIN resp.args.payload = {"title"}
    /\ decks[resp.args.deck_id].title = "v1"
    /\ decks[resp.args.deck_id].category = "c0"
    /\ decks[resp.args.deck_id].description = None
    /\ WordsOfDeck(resp.args.deck_id) # {}

\* Whether the ids a request refers to resolve, and who owns what they name.
Resolves(r) ==
    CASE r.route \in {"read_deck", "update_deck", "delete_deck", "create_word",
                      "create_study_session"} -> r.args.deck_id \in DOMAIN decks
      [] r.route \in {"update_word", "delete_word"} ->
            r.args.deck_id \in DOMAIN decks /\ r.args.word_id \in DOMAIN words
      [] r.route = "update_word_progress" -> r.args.word_id \in DOMAIN words
      [] OTHER -> TRUE

OwnedByAnother(r) ==
    CASE r.route = "update_word_progress" ->
            decks[words[r.args.word_id].deck_id].user_id # Caller(r)
      [] OTHER -> decks[r.args.deck_id].user_id # Caller(r)

ResourceRoutes ==
    {"read_deck", "update_deck", "delete_deck", "create_word", "update_word",
     "delete_word", "create_study_session", "update_word_progress"}

\* C8: for every deck operation, word operation, study-session creation and
\* progress update, an id that does not resolve is answered 404, and 403 is
\* answered only when the resource exists and is owned by another user; in
\* both cases no row is created or changed.
C8_NotFoundAndForbidden ==
    [][(resp'.route \in ResourceRoutes /\ Authenticated(resp'.token)) =>
          /\ ~Resolves(resp') => (resp'.status = 404 /\ UNCHANGED db)
          /\ resp'.status = 403 =>
                (Resolves(resp') /\ OwnedByAnother(resp') /\ UNCHANGED db)]_vars

\* C9: the deck detail reports mastery_percentage = mastered_count /
\* total_words * 100 (0 for an empty deck) and words_learning = total_words -
\* mastered_count, over the deck's words and the caller's mastered rows on them.
C9_DeckDetail ==
    (resp.route = "read_deck" /\ resp.status = 200) =>
        LET ws == {w \in DOMAIN words : words[w].deck_id = resp.args.deck_id}
            total_words == Cardinality(ws)
            mastered_rows == {r \in DOMAIN progress :
                                 /\ r.user_id = Caller(resp)
                                 /\ r.word_id \in ws
                                 /\ r.status = "mastered"}
            mastered_count == BagCardinality(BagFilter(progress, mastered_rows))
            pct == resp.body.mastery_percentage
        IN  /\ IF total_words > 0
               THEN pct[1] * total_words = mastered_count * 100 * pct[2] /\ pct[2] > 0
               ELSE pct = <<0, 1>>
            /\ resp.body.words_mastered = mastered_count
            /\ resp.body.words_learning = total_words - mastered_count

\* C9 happens: a deck of 4 words with 1 mastered reports 25 percent and 3 learning.
C9_Witness ==
    /\ resp.route = "read_deck" /\ resp.status = 200
    /\ count_total_words_in_deck(resp.args.deck_id) = 4
    /\ resp.body.words_mastered = 1
    /\ resp.body.mastery_percentage = <<25, 1>>
    /\ resp.body.words_learning = 3

\* Midnight of the Monday that starts the week of the clock value t.
MondayMidnight(t) == ((t \div TicksPerDay) - ((t \div TicksPerDay) % 7)) * TicksPerDay

\* C10: weekly_words_progress is the sum of words_reviewed over the user's
\* sessions completed at or after midnight of the Monday that starts the
\* current week, and weekly_words_goal is daily_goal * 7.
C10_WeeklyProgressSinceMonday ==
    resp.route = "crud.get_user_stats" =>
        LET u == Caller(resp)
            week == {x \in DOMAIN sessions :
                        /\ sessions[x].user_id = u
                        /\ sessions[x].completed_at >= MondayMidnight(now)}
        IN  /\ resp.body.weekly_words_progress =
                  SumOver(week, [x \in week |-> sessions[x].words_reviewed])
            /\ resp.body.weekly_words_goal = users[u].daily_goal * 7

\* C11: the monthly_progress list returned by get_user_stats has between 0
\* and 6 entries, for every set of sessions and every current date.
C11_MonthlyAtMostSix ==
    resp.route = "crud.get_user_stats" => Len(resp.body.monthly_progress) <= 6

\* C12: the weekly_activity list returned by get_user_stats always has
\* exactly 7 entries, one per consecutive calendar day from 6 days ago through
\* today in chronological order, and a day on which the user completed no
\* session is present with words_studied = 0.
C12_WeeklyActivitySevenDays ==
    resp.route = "crud.get_user_stats" =>
        LET activity == resp.body.weekly_activity
            today == now \div TicksPerDay
        IN  /\ Len(activity) = 7
            /\ \A i \in 1..7 :
                  LET day == today - 7 + i IN
                  /\ activity[i].day = DayAbbr[(day % 7) + 1]
                  /\ (\A x \in DOMAIN sessions :
                         sessions[x].user_id = Caller(resp)
                            => sessions[x].completed_at \div TicksPerDay # day)
                        => activity[i].words_studied = 0

\* C12 happens: the user studied yesterday and not today, and both days are listed.
C12_Witness ==
    /\ resp.route = "crud.get_user_stats"
    /\ resp.body.weekly_activity[6].words_studied > 0
    /\ resp.body.weekly_activity[7].words_studied = 0

\* C13: accuracy_rate is the average of score_percentage over the user's quiz
\* sessions only (a flashcard session never contributes, even with a score;
\* a quiz session without a score has nothing to average), and it is exactly
\* 0 when the user has no quiz session.
C13_AccuracyOverQuizzes ==
    resp.route = "crud.get_user_stats" =>
        LET quizzes == {x \in DOMAIN sessions :
                           /\ sessions[x].user_id = Caller(resp)
                           /\ sessions[x].session_type = "quiz"}
            scored == {x \in quizzes : sessions[x].score_percentage # NoScore}
            total == SumOver(scored, [x \in scored |-> sessions[x].score_percentage[1]])
            rate == resp.body.accuracy_rate
        IN  /\ rate[2] > 0
            /\ rate[1] * Cardinality(scored) = total * rate[2]
            /\ quizzes = {} => rate = <<0, 1>>
            /\ scored = {} => rate = <<0, 1>>

\* C13 happens: quizzes scored 40 and 100 and a flashcard session scored 100
\* give an accuracy of 70.
C13_Witness ==
    /\ resp.route = "crud.get_user_stats"
    /\ resp.body.accuracy_rate = <<70, 1>>
    /\ \E x \in DOMAIN sessions :
          /\ sessions[x].user_id = Caller(resp)
          /\ sessions[x].session_type = "flashcard"
          /\ sessions[x].score_percentage = Score(100)

\* C14: a registration request for an email that is already registered always
\* receives 400 'Email already registered' and creates no user row, also when
\* the other registration of the email passed its lookup at the same time.
C14_DuplicateEmailConflict ==
    [][/\ \A p \in DOMAIN inflight \ DOMAIN inflight' :
             get_user_by_email(inflight[p].user.email) # {}
                => (resp'.status = 400 /\ users' = users)
       /\ (inflight' = inflight /\ resp'.route = "register"
              /\ get_user_by_email(resp'.args.payload.email) # {})
             => (resp'.status = 400 /\ users' = users)]_vars

\* C15: get_user_stats is read-only and uncached: it leaves every table
\* unchanged and its totals are those of the rows stored when it is called,
\* so the fetch that follows a create_study_session, an update_word_progress
\* or a deck delete reflects the new rows: total_words_mastered is the number
\* of the user's progress rows with status mastered and study_time_seconds
\* the sum of duration_seconds over the user's sessions.
C15_StatsReadOnlyAndFresh ==
    [][resp'.route = "crud.get_user_stats" =>
          LET u == Caller(resp')
              mastered == {r \in DOMAIN progress' : r.user_id = u /\ r.status = "mastered"}
              mine == {x \in DOMAIN sessions' : sessions'[x].user_id = u}
          IN  /\ UNCHANGED <<db, achievements, uuid>>
              /\ resp'.body.total_words_mastered = BagCardinality(BagFilter(progress', mastered))
              /\ resp'.body.study_time_seconds =
                    SumOver(mine, [x \in mine |-> sessions'[x].duration_seconds])]_vars

\* C15 happens: the user mastered a word and logged a session, then deleted
\* the deck, and the fetch after the delete reports neither.
C15_Witness ==
    /\ resp.route = "crud.get_user_stats"
    /\ uuid.session > 1 /\ uuid.word > 1
    /\ \E d \in DeletedDecks : TRUE
    /\ \A r \in DOMAIN progress : r.user_id # Caller(resp)
    /\ resp.body.total_words_mastered = 0
    /\ resp.body.study_time_seconds = 0

\* C18: the difficulty breakdown counts the user's progress rows of any status
\* by the difficulty of the joined word: easy + medium + hard is the number
\* of the user's progress rows, rows of other users are never counted, and
\* all three are 0 when the user has no progress row.
C18_DifficultyBreakdown ==
    resp.route = "crud.get_user_stats" =>
        LET mine == {r \in DOMAIN progress : r.user_id = Caller(resp)}
            of(d) == BagCardinality(BagFilter(progress,
                        {r \in mine : words[r.word_id].difficulty = d}))
            got == resp.body.difficulty_breakdown
        IN  /\ got.easy = of("easy") /\ got.medium = of("medium") /\ got.hard = of("hard")
            /\ got.easy + got.medium + got.hard = BagCardinality(BagFilter(progress, mine))
            /\ mine = {} => (got.easy = 0 /\ got.medium = 0 /\ got.hard = 0)

\* C18 happens: the caller has one progress row, on a hard word, and another
\* user has a row on an easy word.
C18_Witness ==
    /\ resp.route = "crud.get_user_stats"
    /\ resp.body.difficulty_breakdown = [easy |-> 0, medium |-> 0, hard |-> 1]
    /\ \E r \in DOMAIN progress :
          r.user_id # Caller(resp) /\ words[r.word_id].difficulty = "easy"

\* C16: for an authenticated user, PUT /users/me and PUT /users/me/settings
\* succeed: exactly the fields present in the payload are applied to that
\* user's own row, every other field and row is unchanged, and the updated
\* user is returned rather than an error.
C16_ProfileUpdateSucceeds ==
    [][(resp'.route \in {"update_user_me", "update_user_me_settings"}
           /\ Authenticated(resp'.token)) =>
          LET u == Caller(resp') IN
          /\ resp'.status = 200
          /\ DOMAIN users' = DOMAIN users
          /\ Patched(users[u], users'[u], resp'.args.payload)
          /\ \A v \in DOMAIN users \ {u} : users'[v] = users[v]
          /\ resp'.body = users'[u]]_vars

\* C17: for an authenticated user, GET /users/me/stats returns the statistics
\* get_user_stats computes for that same user, not an error and not another
\* user's data.
C17_StatsRouteReturnsStats ==
    (resp.route = "read_user_me_stats" /\ Authenticated(resp.token)) =>
        (resp.status = 200 /\ resp.body = get_user_stats(Caller(resp)))

\* The rows of the table t that carry the title.
Titled(t, title) == {a \in DOMAIN t : t[a].title = title}

\* The table t has exactly one row for each title of ACHIEVEMENTS_TO_CREATE.
Seeded(t) ==
    \A i \in 1..Len(ACHIEVEMENTS_TO_CREATE) :
        Cardinality(Titled(t, ACHIEVEMENTS_TO_CREATE[i].title)) = 1

\* C19: seed_achievements is idempotent: after any number of runs, from any
\* starting catalog, the Achievement table holds exactly one row per title of
\* ACHIEVEMENTS_TO_CREATE, a run on a seeded table adds no row, and rows that
\* already existed are not modified.
C19_SeedIdempotent ==
    [][/\ (\E r \in DOMAIN seeding' : seeding'[r].state # "running") => Seeded(achievements')
       /\ Seeded(achievements) => achievements' = achievements
       /\ \A a \in DOMAIN achievements :
             a \in DOMAIN achievements' /\ achievements'[a] = achievements[a]]_vars

\* C19 happens: the first run completed a catalog that held one of its titles
\* with an earlier text, the second run committed and added nothing, and the
\* earlier row is as it was.
C19_Witness ==
    /\ Len(seeding) = 2
    /\ \A r \in DOMAIN seeding : seeding[r].state = "committed"
    /\ seeding[1].pending # {} /\ seeding[2].pending = {}
    /\ Seeded(achievements)
    /\ \E a \in DOMAIN achievements : achievements[a].description = "an earlier text"

\* The mastered updates of an existing row that commit in the step: the
\* worker, the row its lookup found and the pair it updates.
MasteredCommits ==
    {p \in DOMAIN inflight \ DOMAIN inflight' :
        /\ resp'.status = 200
        /\ inflight[p].progress_update.status = "mastered"
        /\ inflight[p].found # {}}

\* C20 as stated: concurrent progress updates of the same existing row are
\* serializable: every mastered update that commits raises the stored
\* correct_streak by one, so two of them on a row at n leave n + 2 whatever
\* the interleaving of their lookups and commits.
C20_SerializableStreak ==
    [][\A p \in MasteredCommits :
          \A old \in RowsOfPair(progress, Caller(resp'), inflight[p].word_id) :
              \A new \in RowsOfPair(progress', Caller(resp'), inflight[p].word_id) :
                  new.correct_streak = old.correct_streak + 1]_vars

\* C20, amended: the last committed write wins. A mastered update commits the
\* correct_streak its own lookup read plus one, whatever was committed since:
\* two updates that both looked up a row at n both write n + 1, and the row
\* reaches n + 2 only when the second lookup follows the first commit.
C20_LastWriteWins ==
    [][\A p \in MasteredCommits :
          /\ CountOfPair(progress', Caller(resp'), inflight[p].word_id) = 1
          /\ \A read \in inflight[p].found :
                \A new \in RowsOfPair(progress', Caller(resp'), inflight[p].word_id) :
                    /\ new.correct_streak = read.correct_streak + 1
                    /\ resp'.body.correct_streak = read.correct_streak + 1]_vars

\* C20 happens: two mastered updates looked up the same row at streak 0; one
\* has committed streak 1 and the other still holds the row it read at 0.
C20_Witness ==
    /\ ProgressAnswered(resp)
    /\ resp.args.payload.status = "mastered"
    /\ resp.body.correct_streak = 1
    /\ \E p \in DOMAIN inflight :
          /\ inflight[p].word_id = resp.args.word_id
          /\ inflight[p].token = resp.token
          /\ inflight[p].progress_update.status = "mastered"
          /\ \E read \in inflight[p].found : read.correct_streak = 0
          /\ \E cur \in RowsOfPair(progress, Caller(resp), resp.args.word_id) :
                cur.correct_streak = 1

\* The correct_streak of the pair's row in the table t, 0 when it has none.
StreakOfPair(t, user_id, word_id) ==
    IF RowsOfPair(t, user_id, word_id) = {} THEN 0
    ELSE (CHOOSE r \in RowsOfPair(t, user_id, word_id) : TRUE).correct_streak

\* C21: under update_word_progress calls applied one after the other, every
\* progress row has status mastered exactly when its correct_streak is at
\* least 1 and status learning exactly when it is 0, and correct_streak counts
\* the consecutive mastered markings since the row's last learning marking or
\* its creation: each mastered marking adds one to the count, each learning
\* marking returns it to 0, and nothing else changes it.
C21_StreakCountsMasteredRun ==
    /\ [](\A r \in DOMAIN progress :
             /\ r.status = "mastered" <=> r.correct_streak >= 1
             /\ r.status = "learning" <=> r.correct_streak = 0)
    /\ [][\A u \in DOMAIN users, w \in DOMAIN words' :
             LET marked == /\ ProgressAnswered(resp')
                           /\ Caller(resp') = u
                           /\ resp'.args.word_id = w
                 before == StreakOfPair(progress, u, w)
                 after == StreakOfPair(progress', u, w)
             IN  IF marked
                 THEN after = (IF resp'.args.payload.status = "mastered" THEN before + 1 ELSE 0)
                 ELSE after = before]_vars

\* C21 happens: one word was marked mastered twice in a row and another was
\* marked learning after it had been mastered.
C21_Witness ==
    /\ ProgressAnswered(resp)
    /\ resp.args.payload.status = "learning"
    /\ resp.body.correct_streak = 0
    /\ \E r \in DOMAIN progress : r.status = "mastered" /\ r.correct_streak = 2
    /\ \E r \in DOMAIN progress : r.status = "learning" /\ r.correct_streak = 0

\* C22: after any sequence of requests through the study, deck and word
\* routers, every StudySession row's user_id is the owner of the deck it
\* references and every UserWordProgress row's user_id is the owner of the
\* deck that contains its word; and no operation changes a deck's owner or a
\* word's deck.
C22_RowsBelongToDeckOwner ==
    /\ [](/\ \A x \in DOMAIN sessions :
               /\ sessions[x].deck_id \in DOMAIN decks
               /\ sessions[x].user_id = decks[sessions[x].deck_id].user_id
          /\ \A r \in DOMAIN progress :
               /\ r.word_id \in DOMAIN words
               /\ r.user_id = decks[words[r.word_id].deck_id].user_id)
    /\ [][/\ \A d \in DOMAIN decks \cap DOMAIN decks' : decks'[d].user_id = decks[d].user_id
          /\ \A w \in DOMAIN words \cap DOMAIN words' : words'[w].deck_id = words[w].deck_id]_vars

\* C22 happens: the owner has a session and a progress row on the deck, and
\* another user's progress update on its word was refused.
C22_Witness ==
    /\ resp.route = "update_word_progress" /\ resp.status = 403
    /\ DOMAIN sessions # {}
    /\ \E r \in DOMAIN progress : r.user_id # Caller(resp) /\ r.word_id = resp.args.word_id

\* C23: each of the 7 weekly_activity buckets holds the sum of words_reviewed
\* over all the user's sessions completed on that calendar day, the oldest
\* bucket included: a session completed on the oldest day, earlier in the day
\* than the time of day of the fetch, is counted in it.
C23_BucketsHoldWholeDays ==
    resp.route = "crud.get_user_stats" =>
        \A i \in 1..7 :
            LET day == (now \div TicksPerDay) - 7 + i
                that_day == {x \in DOMAIN sessions :
                                /\ sessions[x].user_id = Caller(resp)
                                /\ sessions[x].completed_at \div TicksPerDay = day}
            IN  resp.body.weekly_activity[i].words_studied =
                    SumOver(that_day, [x \in that_day |-> sessions[x].words_reviewed])

\* C24: for every deck and every reachable state, the deck detail satisfies
\* 0 <= words_mastered <= total_words, words_learning >= 0,
\* 0 <= mastery_percentage <= 100 and easy_count + medium_count + hard_count
\* = total_words, also after words were added, deleted or changed in
\* difficulty and after progress rows were created or marked again.
C24_DetailCountsConsistent ==
    (resp.route = "read_deck" /\ resp.status = 200) =>
        LET total_words == Cardinality({w \in DOMAIN words :
                                           words[w].deck_id = resp.args.deck_id})
            pct == resp.body.mastery_percentage
        IN  /\ 0 <= resp.body.words_mastered
            /\ resp.body.words_mastered <= total_words
            /\ resp.body.words_learning >= 0
            /\ pct[2] > 0 /\ 0 <= pct[1] /\ pct[1] <= 100 * pct[2]
            /\ resp.body.easy_count + resp.body.medium_count + resp.body.hard_count
                  = total_words

\* C24 happens: the detail of a deck that lost a word, kept one whose
\* difficulty was changed and whose progress row was marked again.
C24_Witness ==
    /\ resp.route = "read_deck" /\ resp.status = 200
    /\ uuid.word = 3
    /\ resp.body.hard_count = 1 /\ resp.body.easy_count = 0 /\ resp.body.medium_count = 0
    /\ resp.body.words_mastered = 1 /\ resp.body.words_learning = 0
    /\ resp.body.mastery_percentage = <<100, 1>>
    /\ \E r \in DOMAIN progress : r.correct_streak = 2

====
